---- MODULE Spec2Model ----
(***************************************************************************)
(* A model of the sdr_agent lead-generation pipeline: the website analysis *)
(* (analyzer.py: fetch, quality scoring, ownership classification, the     *)
(* batch loop) and the pipeline around it (cli.py, search.py and the two   *)
(* exporters).  Strings are TLA+ strings handled character by character;   *)
(* the regular expressions of analyzer.py are syntax trees matched by a    *)
(* backtracking matcher with Python's priorities (leftmost start, greedy   *)
(* quantifiers, alternatives in order).                                    *)
(***************************************************************************)
EXTENDS Integers, Sequences, FiniteSets, TLC

VARIABLES
    web,        \* the network: normalized URL -> outcome of the GET
    results,    \* the list of business records (dicts) of the pipeline
    pc,         \* the control point of the running program
    idx,        \* 1-based position of the loop of analyze_businesses
    args,       \* the parsed command line of cli.main
    rows,       \* the table handed to the export writer
    runs,       \* how many times analyze_businesses has been called
    orig,       \* history: the records as they were before analysis
    first,      \* history: the records as the first analysis run left them
    callUrl,    \* the argument of a direct call of analyze_website
    ret,        \* what that call returned
    api,        \* the places directory: geocoding, result pages, place details
    gets        \* the URLs requested from the network so far, in order

vars == <<web, results, pc, idx, args, rows, runs, orig, first, callUrl, ret, api, gets>>

(***************************************************************************)
(* Characters and strings                                                  *)
(***************************************************************************)
Digits == {"0", "1", "2", "3", "4", "5", "6", "7", "8", "9"}
Lowers == {"a", "b", "c", "d", "e", "f", "g", "h", "i", "j", "k", "l", "m",
           "n", "o", "p", "q", "r", "s", "t", "u", "v", "w", "x", "y", "z", "â"}
Uppers == {"A", "B", "C", "D", "E", "F", "G", "H", "I", "J", "K", "L", "M",
           "N", "O", "P", "Q", "R", "S", "T", "U", "V", "W", "X", "Y", "Z", "Â"}
Spaces == {" ", "\t", "\n", "\r", "\f"}
WordCh == Digits \cup Lowers \cup Uppers \cup {"_"}

LowerOf ==
    [c \in Uppers |->
        CASE c = "A" -> "a" [] c = "B" -> "b" [] c = "C" -> "c" [] c = "D" -> "d"
          [] c = "E" -> "e" [] c = "F" -> "f" [] c = "G" -> "g" [] c = "H" -> "h"
          [] c = "I" -> "i" [] c = "J" -> "j" [] c = "K" -> "k" [] c = "L" -> "l"
          [] c = "M" -> "m" [] c = "N" -> "n" [] c = "O" -> "o" [] c = "P" -> "p"
          [] c = "Q" -> "q" [] c = "R" -> "r" [] c = "S" -> "s" [] c = "T" -> "t"
          [] c = "U" -> "u" [] c = "V" -> "v" [] c = "W" -> "w" [] c = "X" -> "x"
          [] c = "Y" -> "y" [] c = "Z" -> "z" [] c = "Â" -> "â"]

UpperOf == [c \in Lowers |-> CHOOSE u \in Uppers : LowerOf[u] = c]

Ch(s, i) == SubSeq(s, i, i)

\* the strings of a sequence of strings, concatenated (balanced, so that the
\* evaluation depth stays logarithmic in the length)
RECURSIVE ConcatRange(_, _, _)
ConcatRange(parts, lo, hi) ==
    IF lo > hi THEN ""
    ELSE IF lo = hi THEN parts[lo]
    ELSE LET mid == (lo + hi) \div 2
         IN ConcatRange(parts, lo, mid) \o ConcatRange(parts, mid + 1, hi)

Concat(parts) == ConcatRange(parts, 1, Len(parts))

\* str.lower()
Lower(s) ==
    IF \A i \in 1..Len(s) : Ch(s, i) \notin Uppers THEN s
    ELSE Concat([i \in 1..Len(s) |->
            IF Ch(s, i) \in Uppers THEN LowerOf[Ch(s, i)] ELSE Ch(s, i)])

\* str.title(): a letter is upper-cased after a non-letter, lower-cased after a letter
Title(s) == Concat([i \in 1..Len(s) |->
                LET c == Ch(s, i)
                    afterLetter == i > 1 /\ Ch(s, i - 1) \in Lowers \cup Uppers
                IN IF afterLetter
                   THEN (IF c \in Uppers THEN LowerOf[c] ELSE c)
                   ELSE (IF c \in Lowers THEN UpperOf[c] ELSE c)])

\* str.startswith(prefix)
StartsWith(s, prefix) ==
    Len(prefix) <= Len(s) /\ SubSeq(s, 1, Len(prefix)) = prefix

\* sub in s
Contains(s, sub) ==
    \E i \in 1..(Len(s) - Len(sub) + 1) : SubSeq(s, i, i + Len(sub) - 1) = sub

\* str.find(sub) + 1, and 0 when sub does not occur
IndexOf(s, sub) ==
    IF Contains(s, sub)
    THEN CHOOSE i \in 1..(Len(s) - Len(sub) + 1) :
            /\ SubSeq(s, i, i + Len(sub) - 1) = sub
            /\ \A k \in 1..(i - 1) : SubSeq(s, k, k + Len(sub) - 1) # sub
    ELSE 0

\* str.replace(old, new): every non-overlapping occurrence, left to right
RECURSIVE Replace(_, _, _)
Replace(s, old, new) ==
    LET i == IndexOf(s, old)
    IN IF i = 0 THEN s
       ELSE SubSeq(s, 1, i - 1) \o new
                \o Replace(SubSeq(s, i + Len(old), Len(s)), old, new)

\* str.strip()
Strip(s) ==
    IF \A i \in 1..Len(s) : Ch(s, i) \in Spaces THEN ""
    ELSE LET a == CHOOSE i \in 1..Len(s) :
                    Ch(s, i) \notin Spaces /\ \A k \in 1..(i - 1) : Ch(s, k) \in Spaces
             b == CHOOSE i \in 1..Len(s) :
                    Ch(s, i) \notin Spaces /\ \A k \in (i + 1)..Len(s) : Ch(s, k) \in Spaces
         IN SubSeq(s, a, b)

\* sep.join(parts)
Join(parts, sep) ==
    Concat([i \in 1..Len(parts) |-> IF i = 1 THEN parts[i] ELSE sep \o parts[i]])

\* s[:n]
Take(s, n) == SubSeq(s, 1, IF Len(s) < n THEN Len(s) ELSE n)

\* f"{n}" of an integer
Str(n) == ToString(n)

(***************************************************************************)
(* Regular expressions (module re).  A pattern is a syntax tree; Ends gives *)
(* the matches of a tree at one start position in the order a backtracking *)
(* matcher finds them, so its first element is the match re.search reports. *)
(***************************************************************************)
Lit(str) == [t |-> "lit", s |-> str]            \* the characters of str
Cls(name) == [t |-> "cls", c |-> name]          \* one character of a class
Run(name, lo) == [t |-> "run", c |-> name, lo |-> lo]  \* class{lo,}, greedy
Opt(x) == [t |-> "opt", r |-> x]                \* x?, greedy
Cat(rs) == [t |-> "cat", r |-> rs]              \* concatenation
Alt(rs) == [t |-> "alt", r |-> rs]              \* a|b|..., in order

\* \s, \w, \d, ., [^>], [\s-]
InClass(c, name) ==
    CASE name = "s" -> c \in Spaces
      [] name = "w" -> c \in WordCh
      [] name = "d" -> c \in Digits
      [] name = "dot" -> c # "\n"
      [] name = "notgt" -> c # ">"
      [] name = "sdash" -> c \in Spaces \cup {"-"}

\* the number of consecutive characters of the class from position i on
RunLen(s, i, name) ==
    CHOOSE m \in 0..(Len(s) - i + 1) :
        /\ (i + m > Len(s) \/ ~InClass(Ch(s, i + m), name))
        /\ \A k \in 0..(m - 1) : InClass(Ch(s, i + k), name)

RECURSIVE Ends(_, _, _), CatEnds(_, _, _, _), AltEnds(_, _, _, _), Flat(_, _, _, _, _, _)

\* the positions just after each match of r in s that starts at i
Ends(r, s, i) ==
    CASE r.t = "lit" ->
            IF i + Len(r.s) - 1 <= Len(s) /\ SubSeq(s, i, i + Len(r.s) - 1) = r.s
            THEN <<i + Len(r.s)>> ELSE <<>>
      [] r.t = "cls" ->
            IF i <= Len(s) /\ InClass(Ch(s, i), r.c) THEN <<i + 1>> ELSE <<>>
      [] r.t = "run" ->
            LET m == RunLen(s, i, r.c)
            IN IF m < r.lo THEN <<>> ELSE [k \in 1..(m - r.lo + 1) |-> i + m - k + 1]
      [] r.t = "opt" -> Ends(r.r, s, i) \o <<i>>
      [] r.t = "cat" -> CatEnds(r.r, 1, s, i)
      [] r.t = "alt" -> AltEnds(r.r, 1, s, i)

CatEnds(rs, k, s, i) ==
    IF k > Len(rs) THEN <<i>>
    ELSE LET js == Ends(rs[k], s, i) IN Flat(js, 1, Len(js), rs, k + 1, s)

\* the matches of the parts from k on, after each end js[lo..hi] of the part before
Flat(js, lo, hi, rs, k, s) ==
    IF lo > hi THEN <<>>
    ELSE IF lo = hi THEN CatEnds(rs, k, s, js[lo])
    ELSE LET mid == (lo + hi) \div 2
         IN Flat(js, lo, mid, rs, k, s) \o Flat(js, mid + 1, hi, rs, k, s)

AltEnds(rs, k, s, i) ==
    IF k > Len(rs) THEN <<>>
    ELSE Ends(rs[k], s, i) \o AltEnds(rs, k + 1, s, i)

\* re.IGNORECASE on the pattern side: the literals in lower case
RECURSIVE Fold(_)
Fold(r) ==
    CASE r.t = "lit" -> Lit(Lower(r.s))
      [] r.t = "opt" -> Opt(Fold(r.r))
      [] r.t = "cat" -> Cat([k \in 1..Len(r.r) |-> Fold(r.r[k])])
      [] r.t = "alt" -> Alt([k \in 1..Len(r.r) |-> Fold(r.r[k])])
      [] OTHER -> r

\* re.search(pat, s) is not None
Found(pat, s) == \E i \in 1..(Len(s) + 1) : Ends(pat, s, i) # <<>>

\* re.search(pat, s).span(): the leftmost start that matches and the end of its
\* first match; <<0, 0>> for None
Span(pat, s) ==
    IF ~Found(pat, s) THEN <<0, 0>>
    ELSE LET i == CHOOSE i \in 1..(Len(s) + 1) :
                    /\ Ends(pat, s, i) # <<>>
                    /\ \A k \in 1..(i - 1) : Ends(pat, s, k) = <<>>
         IN <<i, Ends(pat, s, i)[1]>>

\* re.compile(pat, re.IGNORECASE) of each pattern of a list
Compiled(pats) == [k \in 1..Len(pats) |-> Fold(pats[k])]

\* re.search(pat, s, re.IGNORECASE) is not None, for a compiled pattern
FoundIC(pat, s) == Found(pat, Lower(s))

\* re.search(pat, s, re.IGNORECASE).group(0), for a compiled pattern that matches
Group0IC(pat, s) ==
    LET sp == Span(pat, Lower(s)) IN SubSeq(s, sp[1], sp[2] - 1)

S1 == Run("s", 1)                               \* \s+


(***************************************************************************)
(* The pattern tables of analyzer.py.  Every use of these patterns passes  *)
(* re.IGNORECASE, so the tables hold the patterns as compiled with it.     *)
(***************************************************************************)

GROUP_PATTERNS == Compiled(<<
    Cat(<<Lit("a"), S1, Lit("proud"), S1, Lit("partner"), S1, Lit("of")>>),
    Cat(<<Lit("proud"), S1, Lit("member"), S1, Lit("of")>>),
    Cat(<<Lit("supported"), S1, Lit("by")>>),
    Cat(<<Lit("managed"), S1, Lit("by")>>),
    Cat(<<Lit("part"), S1, Lit("of"), S1, Lit("the"), S1, Run("w", 1), S1,
          Alt(<<Lit("family"), Lit("network"), Lit("group")>>)>>),
    Cat(<<Lit("a"), S1, Alt(<<Lit("portfolio"), Lit("affiliated")>>), S1, Lit("company")>>),
    Cat(<<Lit("backed"), S1, Lit("by")>>),
    Cat(<<Lit("a"), Opt(Lit("n")), S1, Run("w", 1), S1, Lit("portfolio"), S1, Lit("company")>>),
    Cat(<<Run("d", 2), S1, Lit("locations")>>),
    Cat(<<Run("d", 2), S1, Lit("offices")>>),
    Cat(<<Lit("nationwide"), S1, Lit("network")>>),
    Cat(<<Lit("all"), S1, Lit("rights"), S1, Lit("reserved"), Run("dot", 0),
          Alt(<<Lit("management"), Lit("partners"), Lit("capital"), Lit("holdings"),
                Lit("group")>>)>>),
    Cat(<<Lit("Â©"), Run("dot", 0),
          Alt(<<Cat(<<Lit("dental"), S1, Lit("care")>>), Lit("management"), Lit("partners"),
                Lit("capital"), Lit("holdings"), Lit("group")>>),
          S1, Alt(<<Lit("llc"), Lit("inc"), Lit("corp")>>)>>) >>)

KNOWN_GROUP_BRANDS == <<
    "aspen dental", "heartland dental", "pacific dental", "dental care alliance",
    "smile brands", "dentalcorp", "mid-atlantic dental partners", "affordable care",
    "great expressions", "western dental", "birner dental", "interdent", "dental365",
    "mb2 dental", "north american dental group", "shore dental", "dental depot" >>

INDEPENDENT_PATTERNS == Compiled(<<
    Cat(<<Lit("family"), Cls("sdash"), Lit("owned")>>),
    Cat(<<Lit("locally"), Cls("sdash"), Lit("owned")>>),
    Cat(<<Lit("independently"), Cls("sdash"), Lit("owned")>>),
    Cat(<<Lit("private"), S1, Lit("practice")>>),
    Cat(<<Lit("sole"), S1, Lit("practitioner")>>),
    Cat(<<Lit("owner"), Cls("sdash"), Lit("operated")>>) >>)

OnlineNowAppointment == Alt(<<Lit("online"), Lit("now"), Lit("appointment")>>)

POSITIVE_SIGNALS == <<
    [name |-> "has_online_booking", points |-> 15, patterns |-> Compiled(<<
        Cat(<<Lit("book"), S1, OnlineNowAppointment>>),
        Cat(<<Lit("schedule"), S1, OnlineNowAppointment>>),
        Cat(<<Lit("request"), S1, Lit("appointment")>>),
        Cat(<<Lit("online"), S1, Lit("scheduling")>>) >>)],
    [name |-> "has_services_page", points |-> 10, patterns |-> Compiled(<<
        Cat(<<Opt(Cat(<<Lit("our"), S1>>)), Lit("services")>>),
        Cat(<<Lit("treatment"), Opt(Lit("s")), S1,
              Alt(<<Cat(<<Lit("we"), S1, Lit("offer")>>), Lit("offered")>>)>>) >>)],
    [name |-> "has_reviews_or_testimonials", points |-> 10, patterns |-> Compiled(<<
        Cat(<<Lit("testimonial"), Opt(Lit("s"))>>),
        Cat(<<Lit("patient"), S1, Lit("reviews")>>),
        Cat(<<Lit("what"), S1, Opt(Cat(<<Lit("our"), S1>>)),
              Alt(<<Lit("patients"), Lit("clients")>>), S1, Lit("say")>>) >>)],
    [name |-> "has_team_page", points |-> 5, patterns |-> Compiled(<<
        Cat(<<Alt(<<Lit("our"), Lit("meet")>>), S1, Opt(Cat(<<Lit("the"), S1>>)),
              Alt(<<Lit("team"), Cat(<<Lit("doctor"), Opt(Lit("s"))>>), Lit("staff"),
                    Cat(<<Lit("provider"), Opt(Lit("s"))>>)>>)>>),
        Cat(<<Lit("about"), S1, Opt(Cat(<<Lit("the"), S1>>)), Lit("doctor")>>) >>)],
    [name |-> "has_contact_form", points |-> 5, patterns |-> Compiled(<<
        Cat(<<Lit("contact"), S1, Lit("us")>>),
        Cat(<<Lit("get"), S1, Lit("in"), S1, Lit("touch")>>),
        Cat(<<Lit("send"), S1, Opt(Cat(<<Lit("us"), S1>>)), Opt(Lit("a")), Opt(Cls("s")),
              Lit("message")>>) >>)],
    [name |-> "has_insurance_info", points |-> 5, patterns |-> Compiled(<<
        Cat(<<Opt(Cat(<<Lit("accepted"), S1>>)), Lit("insurance")>>),
        Cat(<<Lit("payment"), S1, Lit("options")>>),
        Lit("financing") >>)],
    [name |-> "has_new_patient_info", points |-> 10, patterns |-> Compiled(<<
        Cat(<<Lit("new"), S1, Lit("patient")>>),
        Cat(<<Lit("first"), S1, Lit("visit")>>),
        Cat(<<Lit("welcome"), S1, Lit("new")>>) >>)],
    [name |-> "has_blog", points |-> 5, patterns |-> Compiled(<<
        Cat(<<Lit("<a"), Run("notgt", 0), Lit("href="), Run("notgt", 0), Lit("blog")>>),
        Lit("/blog") >>)] >>

NEGATIVE_SIGNALS == <<
    [name |-> "has_broken_layout", points |-> -20, patterns |-> Compiled(<<
        Cat(<<Lit("lorem"), S1, Lit("ipsum")>>),
        Cat(<<Lit("coming"), S1, Lit("soon")>>),
        Cat(<<Lit("under"), S1, Lit("construction")>>),
        Cat(<<Lit("site"), S1, Lit("not"), S1, Lit("found")>>),
        Cat(<<Lit("page"), S1, Lit("not"), S1, Lit("found")>>) >>)],
    [name |-> "is_template_site", points |-> -5, patterns |-> Compiled(<<
        Cat(<<Lit("powered"), S1, Lit("by"), S1, Lit("wix")>>),
        Cat(<<Lit("powered"), S1, Lit("by"), S1, Lit("squarespace")>>),
        Lit("weebly.com"),
        Lit("wordpress.com") >>)] >>

\* the two location-finder expressions and the digit run of _classify_ownership
LocationFinderA ==
    Cat(<<Lit("location"), Opt(Lit("s")), Run("s", 0),
          Alt(<<Lit("near"), Lit("finder"), Lit("search")>>)>>)
LocationFinderB ==
    Cat(<<Lit("find"), S1, Lit("a"), S1,
          Alt(<<Lit("location"), Lit("office"), Lit("clinic")>>)>>)
ThreeDigits == Run("d", 3)

(***************************************************************************)
(* Pages.  A document is the sequence of its elements, each with a tag, the *)
(* id, class and href attributes ("" when absent) and its text; resp.text  *)
(* is the markup of the document, and BeautifulSoup reads the elements     *)
(* back from it.                                                           *)
(***************************************************************************)
Elem(tag, id, class, href, text) ==
    [tag |-> tag, id |-> id, class |-> class, href |-> href, text |-> text]

Attr(name, value) == IF value = "" THEN "" ELSE " " \o name \o "=\"" \o value \o "\""

\* resp.text
Markup(doc) ==
    Concat([k \in 1..Len(doc) |->
        "<" \o doc[k].tag \o Attr("id", doc[k].id) \o Attr("class", doc[k].class)
            \o Attr("href", doc[k].href) \o ">" \o doc[k].text
            \o "</" \o doc[k].tag \o ">"])

\* BeautifulSoup(html.lower(), "html.parser"): the elements of the lower-cased markup
LowerDoc(doc) ==
    [k \in 1..Len(doc) |->
        Elem(Lower(doc[k].tag), Lower(doc[k].id), Lower(doc[k].class),
             Lower(doc[k].href), Lower(doc[k].text))]

\* soup.get_text(separator=" ", strip=True): the stripped, non-empty strings, joined
GetText(doc) ==
    Join(SelectSeq([k \in 1..Len(doc) |-> Strip(doc[k].text)], LAMBDA t : t # ""), " ")

\* _extract_footer_text, on the elements of html_lower
ExtractFooterText(ldoc) ==
    LET n == Len(ldoc)
        firstOf(P(_)) == CHOOSE k \in 1..n : P(k) /\ \A j \in 1..(k - 1) : ~P(j)
        isFooter(k) == ldoc[k].tag = "footer"
        idFooter(k) == Contains(ldoc[k].id, "footer")
        classFooter(k) == Contains(ldoc[k].class, "footer")
    IN IF \E k \in 1..n : isFooter(k) THEN Strip(ldoc[firstOf(isFooter)].text)
       ELSE IF \E k \in 1..n : idFooter(k) THEN Strip(ldoc[firstOf(idFooter)].text)
       ELSE IF \E k \in 1..n : classFooter(k) THEN Strip(ldoc[firstOf(classFooter)].text)
       ELSE ""

(***************************************************************************)
(* The fetch.  An outcome of requests.get is an exception of the family    *)
(* requests.RequestException or a response with its status, its final URL  *)
(* (after redirects) and its document.                                     *)
(***************************************************************************)
Failure(name) == [kind |-> "exc", name |-> name]
Response(status, url, doc) == [kind |-> "resp", status |-> status, url |-> url, doc |-> doc]

\* faulty variant: only server errors raise
RaisesForServerError(resp) == 500 <= resp.status /\ resp.status < 600

\* resp.raise_for_status(): HTTPError for a 4xx or 5xx status
RaisesForStatus(resp) == 400 <= resp.status /\ resp.status < 600

\* the URL analyze_website requests
NormalizeUrl(url) ==
    IF StartsWith(url, "http://") \/ StartsWith(url, "https://") THEN url
    ELSE "https://" \o url

\* the try block of analyze_website: the response, or the exception caught
Fetch(net, url) ==
    LET got == net[url]
    IN IF got.kind = "resp" /\ RaisesForStatus(got) THEN Failure("HTTPError") ELSE got

(***************************************************************************)
(* Quality scoring                                                         *)
(***************************************************************************)
\* the condition of the inner loops: the alternative is found in the visible
\* text or in the lower-cased markup
PatternHits(pat, text, html_lower) == FoundIC(pat, text) \/ FoundIC(pat, html_lower)

PositiveLabel(name) == Title(Replace(Replace(name, "has_", ""), "_", " "))
NegativeLabel(name) ==
    Title(Replace(Replace(Replace(name, "has_", ""), "is_", ""), "_", " "))

PositiveReason(sig) == PositiveLabel(sig.name) \o " (+" \o Str(sig.points) \o ")"
NegativeReason(sig) == NegativeLabel(sig.name) \o " (" \o Str(sig.points) \o ")"

\* faulty variant: the inner loop without its break
RECURSIVE ScanPatternsNoBreak(_, _, _, _, _, _)
ScanPatternsNoBreak(sig, k, reason, text, html_lower, st) ==
    IF k > Len(sig.patterns) THEN st
    ELSE ScanPatternsNoBreak(sig, k + 1, reason, text, html_lower,
            IF PatternHits(sig.patterns[k], text, html_lower)
            THEN [score |-> st.score + sig.points, reasons |-> Append(st.reasons, reason)]
            ELSE st)

\* the inner loop "for pat in patterns" from alternative k on, with its break:
\* st is the pair of locals [score, reasons]
RECURSIVE ScanPatterns(_, _, _, _, _, _)
ScanPatterns(sig, k, reason, text, html_lower, st) ==
    IF k > Len(sig.patterns) THEN st
    ELSE IF PatternHits(sig.patterns[k], text, html_lower)
         THEN [score |-> st.score + sig.points, reasons |-> Append(st.reasons, reason)]
         ELSE ScanPatterns(sig, k + 1, reason, text, html_lower, st)

\* the loop "for signal_name, (patterns, points) in _POSITIVE_SIGNALS.items()"
RECURSIVE ScanPositive(_, _, _, _)
ScanPositive(n, text, html_lower, st) ==
    IF n > Len(POSITIVE_SIGNALS) THEN st
    ELSE ScanPositive(n + 1, text, html_lower,
            ScanPatterns(POSITIVE_SIGNALS[n], 1, PositiveReason(POSITIVE_SIGNALS[n]),
                         text, html_lower, st))

\* the loop "for signal_name, (patterns, points) in _NEGATIVE_SIGNALS.items()"
RECURSIVE ScanNegative(_, _, _, _)
ScanNegative(n, text, html_lower, st) ==
    IF n > Len(NEGATIVE_SIGNALS) THEN st
    ELSE ScanNegative(n + 1, text, html_lower,
            ScanPatterns(NEGATIVE_SIGNALS[n], 1, NegativeReason(NEGATIVE_SIGNALS[n]),
                         text, html_lower, st))

BaselinePoints == 30
HttpsPoints == 5

\* resp.url.startswith("https://")
IsHttps(finalUrl) == StartsWith(finalUrl, "https://")

\* faulty variant: the SSL check left out
ScoreStartNoSsl(finalUrl) == [score |-> BaselinePoints, reasons |-> <<"Site loads (+30)">>]

\* the locals score and reasons after the baseline and the SSL check
ScoreStart(finalUrl) ==
    IF IsHttps(finalUrl)
    THEN [score |-> BaselinePoints + HttpsPoints,
          reasons |-> <<"Site loads (+30)", "HTTPS (+5)">>]
    ELSE [score |-> BaselinePoints, reasons |-> <<"Site loads (+30)">>]

\* the locals score and reasons after both signal loops
Scoring(text, html_lower, finalUrl) ==
    ScanNegative(1, text, html_lower,
        ScanPositive(1, text, html_lower, ScoreStart(finalUrl)))

\* faulty variant: a clamp that rounds low scores down to 0
ClampLowToZero(score) == IF score < 10 THEN 0 ELSE IF score > 100 THEN 100 ELSE score

\* max(0, min(100, score))
Clamp(score) == IF score < 0 THEN 0 ELSE IF score > 100 THEN 100 ELSE score

(***************************************************************************)
(* Ownership classification                                                *)
(***************************************************************************)
GroupSnippetLen == 80
IndependentSnippetLen == 60

Quoted(prefix, snippet) == prefix \o ": \"" \o snippet \o "\""

\* faulty variant: the brand loop stopping at the first brand found
BrandSignalsFirst(text) ==
    LET hit == SelectSeq(KNOWN_GROUP_BRANDS, LAMBDA brand : Contains(text, brand))
    IN IF hit = <<>> THEN <<>> ELSE <<"Known brand: " \o hit[1]>>

\* "for brand in _KNOWN_GROUP_BRANDS: if brand in text"
BrandSignals(text) ==
    LET hit == SelectSeq(KNOWN_GROUP_BRANDS, LAMBDA brand : Contains(text, brand))
    IN [k \in 1..Len(hit) |-> "Known brand: " \o hit[k]]

\* "for pat in _GROUP_PATTERNS" over the body text
BodyPatternSignals(text) ==
    LET hit == SelectSeq(GROUP_PATTERNS, LAMBDA pat : FoundIC(pat, text))
    IN [k \in 1..Len(hit) |->
            Quoted("Pattern", Take(Group0IC(hit[k], text), GroupSnippetLen))]

\* "for pat in _GROUP_PATTERNS" over the footer text: appended to the group
\* signals so far unless the same string is already among them
RECURSIVE FooterSignals(_, _, _)
FooterSignals(k, footer_text, group_signals) ==
    IF k > Len(GROUP_PATTERNS) \/ footer_text = "" THEN group_signals
    ELSE IF ~FoundIC(GROUP_PATTERNS[k], footer_text)
         THEN FooterSignals(k + 1, footer_text, group_signals)
         ELSE LET signal == Quoted("Footer",
                                Take(Group0IC(GROUP_PATTERNS[k], footer_text), GroupSnippetLen))
              IN FooterSignals(k + 1, footer_text,
                    IF \E j \in 1..Len(group_signals) : group_signals[j] = signal
                    THEN group_signals ELSE Append(group_signals, signal))

LocationSignals(text) ==
    (IF Found(LocationFinderA, text) THEN <<"Has location finder">> ELSE <<>>)
        \o (IF Found(LocationFinderB, text) THEN <<"Has location finder">> ELSE <<>>)

\* faulty variant: independent snippets cut where group snippets are
IndependentSignalsLong(text) ==
    LET hit == SelectSeq(INDEPENDENT_PATTERNS, LAMBDA pat : FoundIC(pat, text))
    IN [k \in 1..Len(hit) |->
            Quoted("Pattern", Take(Group0IC(hit[k], text), GroupSnippetLen))]

\* "for pat in _INDEPENDENT_PATTERNS": the list independent_signals
IndependentSignals(text) ==
    LET hit == SelectSeq(INDEPENDENT_PATTERNS, LAMBDA pat : FoundIC(pat, text))
    IN [k \in 1..Len(hit) |->
            Quoted("Pattern", Take(Group0IC(hit[k], text), IndependentSnippetLen))]

\* urlparse(url).netloc of a URL with a scheme: from after "//" to the first of / ? #
Netloc(url) ==
    LET p == IndexOf(url, "//")
        rest == IF p = 0 THEN "" ELSE SubSeq(url, p + 2, Len(url))
        stop(i) == Ch(rest, i) \in {"/", "?", "#"}
        e == IF \E i \in 1..Len(rest) : stop(i)
             THEN CHOOSE i \in 1..Len(rest) : stop(i) /\ \A k \in 1..(i - 1) : ~stop(k)
             ELSE Len(rest) + 1
    IN SubSeq(rest, 1, e - 1)

\* s.split(".")[0]
FirstLabel(s) ==
    LET p == IndexOf(s, ".") IN IF p = 0 THEN s ELSE SubSeq(s, 1, p - 1)

\* the domain heuristic
DomainSignals(url) ==
    LET domain == Lower(Netloc(url))
        domain_name == FirstLabel(Replace(domain, "www.", ""))
    IN IF Found(ThreeDigits, domain_name) THEN <<"Numeric domain: " \o domain>> ELSE <<>>

\* the list group_signals when the decision is taken
GroupSignals(text, ldoc, url) ==
    FooterSignals(1, ExtractFooterText(ldoc), BrandSignals(text) \o BodyPatternSignals(text))
        \o LocationSignals(text) \o DomainSignals(url)

\* faulty variant: independent signals taking precedence over group signals
DecideIndependentFirst(group_signals, independent_signals) ==
    IF independent_signals # <<>>
    THEN <<"Independent", Join(independent_signals, "; ")>>
    ELSE IF group_signals # <<>>
    THEN <<"Group/DSO", Join(group_signals, "; ")>>
    ELSE <<"Unknown", "No clear signals found">>

\* the decision logic of _classify_ownership
Decide(group_signals, independent_signals) ==
    IF group_signals # <<>> /\ independent_signals = <<>>
    THEN <<"Group/DSO", Join(group_signals, "; ")>>
    ELSE IF independent_signals # <<>> /\ group_signals = <<>>
    THEN <<"Independent", Join(independent_signals, "; ")>>
    ELSE IF group_signals # <<>> /\ independent_signals # <<>>
    THEN <<"Group/DSO", Join(group_signals \o <<"(also found independent signals)">>, "; ")>>
    ELSE <<"Unknown", "No clear signals found">>

\* _classify_ownership(text, html_lower, url), html_lower given by its elements
ClassifyOwnership(text, ldoc, url) ==
    Decide(GroupSignals(text, ldoc, url), IndependentSignals(text))

(***************************************************************************)
(* analyze_website                                                         *)
(***************************************************************************)
\* faulty variant: a result initialised with a sentinel score
EmptyResultSentinel ==
    [website_score |-> -1, score_reasons |-> "", ownership_type |-> "Unknown",
     ownership_signals |-> ""]

\* the dict result as it is initialised
EmptyResult ==
    [website_score |-> 0, score_reasons |-> "", ownership_type |-> "Unknown",
     ownership_signals |-> ""]

\* the branch "if not url"
NoWebsite == [EmptyResult EXCEPT !.score_reasons = "No website"]

\* faulty variant: the exception of the fetch not caught
UnreachableRaises(name) == [raised |-> name]

\* the handler "except requests.RequestException as e"
Unreachable(name) == [EmptyResult EXCEPT !.score_reasons = "Unreachable (" \o name \o ")"]

\* an exception that leaves a function
Raised(name) == [raised |-> name]
IsRaised(v) == "raised" \in DOMAIN v

\* the GET requests analyze_website(url) issues: one, of the normalized URL, and
\* none for an empty URL
Requests(url) == IF url = "" THEN <<>> ELSE <<NormalizeUrl(url)>>

\* analyze_website(url) when the network answers as net does
AnalyzeWebsite(url, net) ==
    IF url = "" THEN NoWebsite
    ELSE LET nurl == NormalizeUrl(url)
             got == Fetch(net, nurl)
         IN IF got.kind = "exc"
            THEN Unreachable(got.name)
            ELSE LET html == Markup(got.doc)
                     text == Lower(GetText(got.doc))
                     html_lower == Lower(html)
                     st == Scoring(text, html_lower, got.url)
                     own == ClassifyOwnership(text, LowerDoc(got.doc), nurl)
                 IN [website_score |-> Clamp(st.score),
                     score_reasons |-> Join(st.reasons, "; "),
                     ownership_type |-> own[1],
                     ownership_signals |-> own[2]]

(***************************************************************************)
(* Inputs: the bounds and the sample pages                                 *)
(***************************************************************************)
MaxElems == 2       \* elements of a sample page

SeqsUpTo(S, n) == UNION {[1..k -> S] : k \in 0..n}

Blanks(n) == Concat([k \in 1..n |-> " "])

\* elements that exercise the scoring tables
ScoreElems == {
    Elem("p", "", "", "", "Book Appointment Online"),
    Elem("p", "", "", "", "Coming Soon"),
    Elem("div", "", "wix", "", "Powered by Wix"),
    Elem("a", "", "", "/blog", "News"),
    Elem("p", "", "", "", "Under"),
    Elem("a", "", "", "/Blog", " Testimonials! Meet the Team, contact us. Insurance; New Patient? Our services: schedule now\n") }

\* elements that exercise the ownership tables
OwnElems == {
    Elem("p", "", "", "", "Aspen Dental and Dental365: find a location"),
    Elem("p", "", "", "", "A Family-Owned practice"),
    Elem("p", "", "", "", "Managed by Example Holdings"),
    Elem("footer", "", "", "",
         "All rights reserved. Springfield and Shelbyville Family Smiles, an Example Dental Partners Group office"),
    Elem("p", "", "", "", "Private" \o Blanks(55) \o "Practice"),
    Elem("div", "Site-Footer", "", "", "Backed" \o Blanks(64) \o "by Example Capital") }

ScoreDocs == SeqsUpTo(ScoreElems, MaxElems)
OwnDocs == SeqsUpTo(OwnElems, MaxElems)

FailureKinds == {"ConnectionError", "Timeout", "TooManyRedirects"}
OtherStatuses == {304, 404, 500}

\* what a direct call is tried on: the URL given and the answer of the network
ScoreInputs ==
    {<<"", Failure("ConnectionError")>>}
        \cup ({"example.com", "http://example.com/home"}
                \X ({Failure(k) : k \in FailureKinds}
                        \cup {Response(st, "https://example.com/", <<>>) : st \in OtherStatuses}))
        \cup ({"example.com"}
                \X {Response(200, u, d) :
                        u \in {"https://example.com/", "http://example.com/"}, d \in ScoreDocs})

OwnInputs ==
    {"example.com", "http://www.dental365.com/offices?id=1"}
        \X {Response(200, "https://example.com/", d) : d \in OwnDocs}

(***************************************************************************)
(* A direct call of analyze_website                                        *)
(***************************************************************************)
NoResult == [website_score |-> -1]

InitCall(inputs) ==
    /\ \E in \in inputs :
        /\ callUrl = in[1]
        /\ web = (NormalizeUrl(in[1]) :> in[2])
    /\ pc = "call"
    /\ ret = NoResult
    /\ results = <<>> /\ idx = 0 /\ args = <<>> /\ rows = <<>> /\ runs = 0
    /\ orig = <<>> /\ first = <<>> /\ api = <<>> /\ gets = <<>>

CallAnalyzeWebsite ==
    /\ pc = "call"
    /\ ret' = AnalyzeWebsite(callUrl, web)
    /\ gets' = gets \o Requests(callUrl)
    /\ pc' = "returned"
    /\ UNCHANGED <<web, results, idx, args, rows, runs, orig, first, callUrl, api>>

InitScore == InitCall(ScoreInputs)
InitOwn == InitCall(OwnInputs)

SpecScore == InitScore /\ [][CallAnalyzeWebsite]_vars
SpecOwn == InitOwn /\ [][CallAnalyzeWebsite]_vars

(***************************************************************************)
(* Business records (dicts) and analyze_businesses                         *)
(***************************************************************************)
\* d.get(key, default)
Get(d, key, default) == IF key \in DOMAIN d THEN d[key] ELSE default

\* faulty variant: an update that appends to a score_reasons already present
UpdateAccumulating(d, other) ==
    [k \in DOMAIN d \cup DOMAIN other |->
        IF k \notin DOMAIN other THEN d[k]
        ELSE IF k = "score_reasons" /\ k \in DOMAIN d THEN d[k] \o "; " \o other[k]
        ELSE other[k]]

\* d.update(other)
Update(d, other) ==
    [k \in DOMAIN d \cup DOMAIN other |-> IF k \in DOMAIN other THEN other[k] ELSE d[k]]

AnalysisFields == {"website_score", "score_reasons", "ownership_type", "ownership_signals"}

\* one iteration of the loop of analyze_businesses; an exception of
\* analyze_website would leave the loop and analyze_businesses
AnalyzeStep ==
    /\ pc = "analyze"
    /\ idx <= Len(results)
    /\ LET r == results[idx]
           url == Get(r, "website", "")
           analysis == AnalyzeWebsite(url, web)
       IN IF IsRaised(analysis)
          THEN pc' = "raised" /\ UNCHANGED <<results, idx>>
          ELSE /\ results' = [results EXCEPT ![idx] = Update(r, analysis)]
               /\ idx' = idx + 1
               /\ pc' = pc
    /\ gets' = gets \o Requests(Get(results[idx], "website", ""))
    /\ UNCHANGED <<web, args, rows, runs, orig, first, callUrl, ret, api>>

(***************************************************************************)
(* analyze_businesses called by a program of its own, any number of times  *)
(***************************************************************************)
MaxRecords == 2     \* records of a list handed to analyze_businesses
MaxRuns == 2        \* calls of analyze_businesses on the same list

SamplePage ==
    <<Elem("p", "", "", "", "Book Appointment Online"),
      Elem("footer", "", "", "", "Managed by Example Holdings")>>

SampleWeb ==
    [u \in {"https://example.com", "https://down.example", "http://gone.example/x"} |->
        CASE u = "https://example.com" -> Response(200, "https://www.example.com/", SamplePage)
          [] u = "https://down.example" -> Failure("ConnectionError")
          [] u = "http://gone.example/x" -> Response(404, u, <<>>)]

SampleRecords == {
    [name |-> "A", website |-> "example.com", rating |-> 4],
    [name |-> "B"],
    [name |-> "C", website |-> ""],
    [name |-> "D", website |-> "down.example", phone |-> "555"],
    [name |-> "E", website |-> "http://gone.example/x"] }

InitBatch ==
    /\ results \in SeqsUpTo(SampleRecords, MaxRecords)
    /\ orig = results
    /\ web = SampleWeb
    /\ pc = "idle" /\ idx = 0 /\ runs = 0 /\ first = <<>>
    /\ args = <<>> /\ rows = <<>> /\ callUrl = "" /\ ret = NoResult /\ api = <<>>
    /\ gets = <<>>

CallAnalyzeBusinesses ==
    /\ pc = "idle"
    /\ runs < MaxRuns
    /\ pc' = "analyze"
    /\ idx' = 1
    /\ runs' = runs + 1
    /\ UNCHANGED <<web, results, args, rows, orig, first, callUrl, ret, api, gets>>

ReturnAnalyzeBusinesses ==
    /\ pc = "analyze"
    /\ idx > Len(results)
    /\ pc' = "idle"
    /\ first' = IF runs = 1 THEN results ELSE first
    /\ UNCHANGED <<web, results, idx, args, rows, runs, orig, callUrl, ret, api, gets>>

NextBatch == CallAnalyzeBusinesses \/ AnalyzeStep \/ ReturnAnalyzeBusinesses

SpecBatch == InitBatch /\ [][NextBatch]_vars

(***************************************************************************)
(* analyze_businesses on records whose sites disclose their ownership in   *)
(* long and in short phrases                                               *)
(***************************************************************************)
LongIndependentPage == <<Elem("p", "", "", "", "Private" \o Blanks(55) \o "Practice")>>
ShortIndependentPage == <<Elem("p", "", "", "", "A Family-Owned practice")>>
LongGroupPage ==
    <<Elem("p", "", "", "", "Backed" \o Blanks(64) \o "by Example Capital"),
      Elem("footer", "", "", "",
           "All rights reserved. Springfield and Shelbyville Family Smiles, an Example Dental Partners Group office")>>

EvidenceWeb ==
    [u \in {"https://solo.example", "https://family.example", "https://chain.example",
            "https://plain.example", "https://down.example"} |->
        CASE u = "https://solo.example" -> Response(200, u \o "/", LongIndependentPage)
          [] u = "https://family.example" -> Response(200, u \o "/", ShortIndependentPage)
          [] u = "https://chain.example" -> Response(200, u \o "/", LongGroupPage)
          [] u = "https://plain.example" -> Response(200, u \o "/", <<>>)
          [] u = "https://down.example" -> Failure("Timeout")]

EvidenceRecords ==
    {[name |-> n, website |-> n \o ".example"] : n \in {"solo", "family", "chain", "plain", "down"}}

InitEvidence ==
    /\ results \in SeqsUpTo(EvidenceRecords, MaxRecords)
    /\ orig = results
    /\ web = EvidenceWeb
    /\ pc = "idle" /\ idx = 0 /\ runs = 0 /\ first = <<>>
    /\ args = <<>> /\ rows = <<>> /\ callUrl = "" /\ ret = NoResult /\ api = <<>>
    /\ gets = <<>>

SpecEvidence == InitEvidence /\ [][NextBatch]_vars

(***************************************************************************)
(* search.py: the places directory                                         *)
(***************************************************************************)
\* _extract_fields(place)
ExtractFields(place) ==
    [name |-> Get(place, "name", ""),
     address |-> Get(place, "formatted_address", ""),
     rating |-> Get(place, "rating", ""),
     total_ratings |-> Get(place, "user_ratings_total", ""),
     business_status |-> Get(place, "business_status", ""),
     types |-> Join(Get(place, "types", <<>>), ", "),
     place_id |-> Get(place, "place_id", ""),
     phone |-> "",
     website |-> "",
     google_maps_url |-> ""]

\* the pagination loop of search_businesses: all_results after the pages from
\* page k on have been followed
RECURSIVE FollowPages(_, _, _, _)
FollowPages(pages, k, all_results, max_results) ==
    IF pages[k].next_page_token /\ Len(all_results) < max_results /\ k < Len(pages)
    THEN FollowPages(pages, k + 1, all_results \o pages[k + 1].results, max_results)
    ELSE all_results

\* search_businesses(client, query, location, radius, max_results), once
\* geocode_location has succeeded
SearchBusinesses(dir, max_results) ==
    LET all_results == FollowPages(dir.pages, 1, dir.pages[1].results, max_results)
        kept == SubSeq(all_results, 1,
                       IF Len(all_results) < max_results THEN Len(all_results) ELSE max_results)
    IN [k \in 1..Len(kept) |-> ExtractFields(kept[k])]

\* the body of the loop of enrich_results for one record
EnrichOne(dir, r) ==
    IF Get(r, "place_id", "") = "" THEN r
    ELSE LET details == dir.details[r.place_id]
         IN Update(r, [phone |-> Get(details, "formatted_phone_number", ""),
                       website |-> Get(details, "website", ""),
                       google_maps_url |-> Get(details, "url", "")])

\* enrich_results(client, results)
EnrichResults(dir, rs) == [k \in 1..Len(rs) |-> EnrichOne(dir, rs[k])]

(***************************************************************************)
(* csv_export.py and sheets.py                                             *)
(***************************************************************************)
HEADERS == <<"Name", "Address", "Phone", "Website", "Rating", "Total Ratings",
             "Business Status", "Types", "Google Maps URL">>

RowKeys == <<"name", "address", "phone", "website", "rating", "total_ratings",
             "business_status", "types", "google_maps_url">>

NumericKeys == {"rating", "total_ratings", "website_score"}

\* str(result.get(key, "")): the numbers of a record are under the numeric keys
Cell(result, key) ==
    IF key \in DOMAIN result
    THEN (IF key \in NumericKeys THEN Str(result[key]) ELSE result[key])
    ELSE ""

\* _result_to_row(result), the same function in both exporters
ResultToRow(result) == [c \in 1..Len(RowKeys) |-> Cell(result, RowKeys[c])]

\* the rows export_to_csv writes
ExportToCsv(rs) == <<HEADERS>> \o [k \in 1..Len(rs) |-> ResultToRow(rs[k])]

\* the values export_to_sheet puts on the worksheet
ExportToSheet(rs) == <<HEADERS>> \o [k \in 1..Len(rs) |-> ResultToRow(rs[k])]

\* the parameters of export_to_sheet and the keywords main calls it with
SheetParameters == {"client", "spreadsheet_id", "results", "worksheet_name"}
SheetCallKeywords == {"api_key", "spreadsheet_id", "results", "worksheet_name"}

(***************************************************************************)
(* cli.py: main                                                            *)
(***************************************************************************)
MaxPlaces == 2      \* places the directory knows for the query
PerPage == 1        \* places on one page of the directory's answer

SamplePlaces == {
    [name |-> "Alpha Dental", formatted_address |-> "1 Main St", rating |-> 4,
     user_ratings_total |-> 12, business_status |-> "OPERATIONAL",
     types |-> <<"dentist", "health">>, place_id |-> "p1"],
    [name |-> "Beta Smiles", rating |-> 5, user_ratings_total |-> 3, place_id |-> "p2"],
    [name |-> "Gamma Clinic", rating |-> 3, user_ratings_total |-> 7] }

SampleDetails ==
    [id \in {"p1", "p2"} |->
        IF id = "p1"
        THEN [formatted_phone_number |-> "555-0100", website |-> "example.com",
              url |-> "https://maps.example/p1"]
        ELSE [formatted_phone_number |-> "555-0101"]]

\* the answer of the directory in pages of PerPage places; a page has a
\* next_page_token when places remain after it
Pages(places) ==
    LET n == IF Len(places) = 0 THEN 1 ELSE (Len(places) + PerPage - 1) \div PerPage
    IN [k \in 1..n |->
            [results |-> SubSeq(places, (k - 1) * PerPage + 1,
                                IF k * PerPage < Len(places) THEN k * PerPage ELSE Len(places)),
             next_page_token |-> k * PerPage < Len(places)]]

Directories ==
    {[geocode |-> g, pages |-> Pages(ps), details |-> SampleDetails] :
        g \in BOOLEAN, ps \in SeqsUpTo(SamplePlaces, MaxPlaces)}

Args(key, no_enrich, no_analyze, sheet_id, max_results) ==
    [google_api_key |-> key, sheets_api_key |-> "", no_enrich |-> no_enrich,
     no_analyze |-> no_analyze, sheet_id |-> sheet_id, max_results |-> max_results]

CommandLines ==
    {Args("key", e, a, sh, 60) : e \in BOOLEAN, a \in BOOLEAN, sh \in {"", "sheet"}}
        \cup {Args("", FALSE, FALSE, "", 60), Args("key", FALSE, FALSE, "", 1)}

InitMain ==
    /\ args \in CommandLines
    /\ api \in {d \in Directories : d.geocode \/ Len(d.pages[1].results) = 0}
    /\ web = SampleWeb
    /\ pc = "start"
    /\ results = <<>> /\ idx = 0 /\ rows = <<>> /\ runs = 0
    /\ orig = <<>> /\ first = <<>> /\ callUrl = "" /\ ret = NoResult /\ gets = <<>>

\* "if not args.google_api_key: ... sys.exit(1)"
MainStart ==
    /\ pc = "start"
    /\ pc' = IF args.google_api_key = "" THEN "exit1" ELSE "search"
    /\ UNCHANGED <<web, results, idx, args, rows, runs, orig, first, callUrl, ret, api, gets>>

\* search_businesses: geocode_location raises ValueError when the location is
\* unknown, and main does not catch it; "if not results: ... sys.exit(0)"
MainSearch ==
    /\ pc = "search"
    /\ IF ~api.geocode
       THEN pc' = "raised" /\ UNCHANGED results
       ELSE /\ results' = SearchBusinesses(api, args.max_results)
            /\ pc' = IF results' = <<>> THEN "exit0" ELSE "enrich"
    /\ UNCHANGED <<web, idx, args, rows, runs, orig, first, callUrl, ret, api, gets>>

\* "if not args.no_enrich: results = enrich_results(gmaps, results)"
MainEnrich ==
    /\ pc = "enrich"
    /\ results' = IF args.no_enrich THEN results ELSE EnrichResults(api, results)
    /\ orig' = results'
    /\ pc' = IF args.no_analyze THEN "export" ELSE "analyze"
    /\ idx' = 1
    /\ runs' = IF args.no_analyze THEN runs ELSE runs + 1
    /\ UNCHANGED <<web, args, rows, first, callUrl, ret, api, gets>>

\* analyze_businesses returns to main, which prints the summary
MainAnalyzed ==
    /\ pc = "analyze"
    /\ idx > Len(results)
    /\ pc' = "export"
    /\ UNCHANGED <<web, results, idx, args, rows, runs, orig, first, callUrl, ret, api, gets>>

\* the export: export_to_sheet is called with keywords it does not have
\* (TypeError, not caught), export_to_csv writes the rows
MainExport ==
    /\ pc = "export"
    /\ IF args.sheet_id # ""
       THEN IF SheetCallKeywords \subseteq SheetParameters
            THEN rows' = ExportToSheet(results) /\ pc' = "done"
            ELSE rows' = rows /\ pc' = "raised"
       ELSE rows' = ExportToCsv(results) /\ pc' = "done"
    /\ UNCHANGED <<web, results, idx, args, runs, orig, first, callUrl, ret, api, gets>>

NextMain ==
    MainStart \/ MainSearch \/ MainEnrich \/ AnalyzeStep \/ MainAnalyzed \/ MainExport

Spec == InitMain /\ [][NextMain]_vars

(***************************************************************************)
(* Properties of a direct call of analyze_website                          *)
(***************************************************************************)
Returned == pc = "returned"

\* what the network answers to the call, and whether a page was obtained
CallAnswer == web[NormalizeUrl(callUrl)]
PageObtained == callUrl # "" /\ Fetch(web, NormalizeUrl(callUrl)).kind = "resp"
CallText == Lower(GetText(CallAnswer.doc))
CallHtmlLower == Lower(Markup(CallAnswer.doc))

\* a category of a signal table matches the page of the call
CategoryMatches(sig) ==
    \E k \in 1..Len(sig.patterns) :
        FoundIC(sig.patterns[k], CallText) \/ FoundIC(sig.patterns[k], CallHtmlLower)

NoNegativeCategory == \A n \in 1..Len(NEGATIVE_SIGNALS) : ~CategoryMatches(NEGATIVE_SIGNALS[n])

\* C1: whatever the URL and the outcome of the fetch, the website_score returned
\* is an integer from 0 to 100
C1_ScoreInRange == Returned => ret.website_score \in 0..100

\* both ends of the range are returned: 0 without a page, 100 for a page over
\* https that matches every positive category and no negative one
C1_Witness == Returned /\ PageObtained /\ ret.website_score = 100

HasBookingPhrase == Contains(CallHtmlLower, "book appointment online")
BookingOverHttps == Returned /\ PageObtained /\ HasBookingPhrase /\ IsHttps(CallAnswer.url)

\* C2 as stated: a page that contains "book appointment online" and is served
\* over https scores at least 50, whatever else it contains
C2_Original == BookingOverHttps => ret.website_score >= 50

\* C2 amended: such a page scores at least 25, and at least 50 when it matches
\* neither negative category
C2_BookingScore ==
    BookingOverHttps =>
        /\ ret.website_score >= 25
        /\ NoNegativeCategory => ret.website_score >= 50

C2_Witness == BookingOverHttps /\ NoNegativeCategory /\ ret.website_score = 50

\* the terminal record of a call that obtained no page
Terminal(reason) ==
    [website_score |-> 0, score_reasons |-> reason, ownership_type |-> "Unknown",
     ownership_signals |-> ""]

FetchRaised == callUrl # "" /\ CallAnswer.kind = "exc"
StatusNot2xx == callUrl # "" /\ CallAnswer.kind = "resp" /\ CallAnswer.status \notin 200..299
StatusError == callUrl # "" /\ CallAnswer.kind = "resp" /\ CallAnswer.status \in 400..599

\* what C5 says of an empty URL and of a fetch that raised, with at most one request
TerminalWithoutPage ==
    /\ callUrl = "" => ret = Terminal("No website") /\ gets = <<>>
    /\ FetchRaised =>
        /\ ret = Terminal("Unreachable (" \o CallAnswer.name \o ")")
        /\ gets = <<NormalizeUrl(callUrl)>>

\* C5 as stated: without a page the terminal record is returned, no scoring or
\* classification is run and nothing is retried; a response with a non-2xx
\* status counts as no page
C5_Original ==
    Returned =>
        /\ TerminalWithoutPage
        /\ StatusNot2xx =>
            /\ ret.website_score = 0 /\ ret.ownership_type = "Unknown"
            /\ ret.ownership_signals = ""
            /\ gets = <<NormalizeUrl(callUrl)>>

\* C5 amended: the same, for a response with a 4xx or 5xx status, whose reason
\* names HTTPError; a response with any other status is a page
C5_TerminalRecord ==
    Returned =>
        /\ TerminalWithoutPage
        /\ StatusError =>
            /\ ret = Terminal("Unreachable (HTTPError)")
            /\ gets = <<NormalizeUrl(callUrl)>>
        /\ PageObtained <=> StartsWith(ret.score_reasons, "Site loads")

C5_Witness ==
    /\ Returned /\ StatusError /\ CallAnswer.status = 404
    /\ ret.score_reasons = "Unreachable (HTTPError)"

\* s.split(sep)
RECURSIVE SplitOn(_, _)
SplitOn(s, sep) ==
    LET i == IndexOf(s, sep)
    IN IF i = 0 THEN <<s>>
       ELSE <<SubSeq(s, 1, i - 1)>> \o SplitOn(SubSeq(s, i + Len(sep), Len(s)), sep)

DigitValue(c) == CHOOSE n \in 0..9 : Str(n) = c

RECURSIVE ParseNat(_)
ParseNat(ds) ==
    IF ds = "" THEN 0
    ELSE 10 * ParseNat(SubSeq(ds, 1, Len(ds) - 1)) + DigitValue(Ch(ds, Len(ds)))

\* the signed number between the last "(" of a reason and the ")" that ends it
DeltaOf(entry) ==
    LET p == CHOOSE i \in 1..Len(entry) :
                Ch(entry, i) = "(" /\ \A k \in (i + 1)..Len(entry) : Ch(entry, k) # "("
        n == ParseNat(SubSeq(entry, p + 2, Len(entry) - 1))
    IN IF Ch(entry, p + 1) = "-" THEN 0 - n ELSE n

Annotated(entry) ==
    /\ Ch(entry, Len(entry)) = ")"
    /\ \E i \in 1..Len(entry) :
        /\ SubSeq(entry, i, i + 1) \in {"(+", "(-"}
        /\ i + 2 < Len(entry)
        /\ \A k \in (i + 2)..(Len(entry) - 1) : Ch(entry, k) \in Digits

RECURSIVE SumDeltas(_, _)
SumDeltas(entries, k) ==
    IF k > Len(entries) THEN 0 ELSE DeltaOf(entries[k]) + SumDeltas(entries, k + 1)

PositiveEntries ==
    <<"Online Booking (+15)", "Services Page (+10)", "Reviews Or Testimonials (+10)",
      "Team Page (+5)", "Contact Form (+5)", "Insurance Info (+5)",
      "New Patient Info (+10)", "Blog (+5)">>
NegativeEntries == <<"Broken Layout (-20)", "Template Site (-5)">>

\* the entries of a table whose category matches the page, in table order
EntriesOf(table, entries) ==
    LET hit == SelectSeq([n \in 1..Len(table) |-> n], LAMBDA n : CategoryMatches(table[n]))
    IN [k \in 1..Len(hit) |-> entries[hit[k]]]

ExpectedReasons ==
    <<"Site loads (+30)">>
        \o (IF IsHttps(CallAnswer.url) THEN <<"HTTPS (+5)">> ELSE <<>>)
        \o EntriesOf(POSITIVE_SIGNALS, PositiveEntries)
        \o EntriesOf(NEGATIVE_SIGNALS, NegativeEntries)

\* C9: for a fetched page the reasons are the baseline, HTTPS iff the final URL
\* is https, one entry per matched positive category in table order, then one per
\* matched negative category; every entry carries its signed delta and the score
\* is the sum of the deltas of the entries, clamped to 0..100
C9_OrderedPass ==
    Returned /\ PageObtained =>
        LET entries == SplitOn(ret.score_reasons, "; ")
            total == SumDeltas(entries, 1)
        IN /\ entries = ExpectedReasons
           /\ \A k \in 1..Len(entries) : Annotated(entries[k])
           /\ ret.website_score = IF total < 0 THEN 0 ELSE IF total > 100 THEN 100 ELSE total

\* a page over https where a category matches by two alternatives and only in the
\* markup, after an element of a later category, with a negative category too
C9_Witness ==
    /\ Returned /\ PageObtained
    /\ ret.score_reasons = "Site loads (+30); HTTPS (+5); Blog (+5); Broken Layout (-20)"
    /\ ret.website_score = 20

(***************************************************************************)
(* Properties of the ownership verdict of a direct call                    *)
(***************************************************************************)
\* the two lists _classify_ownership has collected when it decides
CallGroupSignals ==
    GroupSignals(CallText, LowerDoc(CallAnswer.doc), NormalizeUrl(callUrl))
CallIndependentSignals == IndependentSignals(CallText)

Range(f) == {f[x] : x \in DOMAIN f}
Caveat == "(also found independent signals)"
EndsWith(s, t) == Len(t) <= Len(s) /\ SubSeq(s, Len(s) - Len(t) + 1, Len(s)) = t

\* C3: group signals only give Group, independent signals only give
\* Independent, both give Group with the group signals followed by one caveat,
\* neither gives Unknown with "No clear signals found"; a page with both
\* "family-owned" and "managed by Example Holdings" is Group with the caveat
C3_Precedence ==
    Returned /\ PageObtained =>
        LET g == CallGroupSignals # <<>>
            i == CallIndependentSignals # <<>>
        IN /\ g /\ ~i => /\ ret.ownership_type = "Group/DSO"
                         /\ ret.ownership_signals = Join(CallGroupSignals, "; ")
           /\ i /\ ~g => /\ ret.ownership_type = "Independent"
                         /\ ret.ownership_signals = Join(CallIndependentSignals, "; ")
           /\ g /\ i => /\ ret.ownership_type = "Group/DSO"
                        /\ ret.ownership_signals = Join(CallGroupSignals, "; ") \o "; " \o Caveat
           /\ ~g /\ ~i => /\ ret.ownership_type = "Unknown"
                          /\ ret.ownership_signals = "No clear signals found"
           /\ Contains(CallText, "family-owned") /\ Contains(CallText, "managed by example holdings")
                => /\ ret.ownership_type = "Group/DSO"
                   /\ EndsWith(ret.ownership_signals, "; " \o Caveat)

\* the page of the example: both kinds of signal were collected
C3_Witness ==
    /\ Returned /\ PageObtained
    /\ Contains(CallText, "family-owned") /\ Contains(CallText, "managed by example holdings")
    /\ CallIndependentSignals # <<>> /\ CallGroupSignals # <<>>
    /\ ret.ownership_type = "Group/DSO"

BrandsInText == {b \in Range(KNOWN_GROUP_BRANDS) : Contains(CallText, b)}
NoIndependentPattern ==
    \A k \in 1..Len(INDEPENDENT_PATTERNS) : ~FoundIC(INDEPENDENT_PATTERNS[k], CallText)

\* C4: a fetched page whose text contains a known brand and matches no
\* independent pattern is Group, and its evidence has the entry
\* "Known brand: <name>" for each brand that occurs in the text
C4_KnownBrand ==
    Returned /\ PageObtained /\ BrandsInText # {} /\ NoIndependentPattern =>
        /\ ret.ownership_type = "Group/DSO"
        /\ \A b \in BrandsInText :
            "Known brand: " \o b \in Range(SplitOn(ret.ownership_signals, "; "))

\* a page that names two brands
C4_Witness ==
    /\ Returned /\ PageObtained /\ NoIndependentPattern
    /\ Cardinality(BrandsInText) >= 2
    /\ ret.ownership_type = "Group/DSO"

(***************************************************************************)
(* Properties of analyze_businesses                                        *)
(***************************************************************************)
OtherFields(r) == DOMAIN r \ AnalysisFields
Analysis(r) == [f \in AnalysisFields |-> r[f]]
Analyzed(k) == AnalysisFields \subseteq DOMAIN results[k]
Website(r) == IF "website" \in DOMAIN r THEN r["website"] ELSE ""
Serves(url) == url # "" /\ Fetch(web, NormalizeUrl(url)).kind = "resp"

\* the requests of the records before position n, in list order
RECURSIVE RequestsBefore(_, _)
RequestsBefore(rs, n) ==
    IF n <= 1 THEN <<>>
    ELSE RequestsBefore(rs, n - 1)
            \o (IF Website(rs[n - 1]) = "" THEN <<>> ELSE <<NormalizeUrl(Website(rs[n - 1]))>>)

\* C6: analyze_businesses never raises and processes the records one at a time
\* in list order; after it returns every record carries the four analysis
\* fields, a failed fetch of one record leaves the later records analyzed, the
\* list has the same records in the same order and every other field is unchanged
C6_Batch ==
    /\ pc # "raised"
    /\ Len(results) = Len(orig)
    /\ \A k \in 1..Len(results) :
        /\ OtherFields(results[k]) = DOMAIN orig[k]
        /\ \A f \in DOMAIN orig[k] : results[k][f] = orig[k][f]
    /\ pc = "analyze" /\ runs = 1 =>
        /\ \A k \in 1..Len(results) : IF k < idx THEN Analyzed(k) ELSE results[k] = orig[k]
        /\ gets = RequestsBefore(orig, idx)
    /\ pc = "idle" /\ runs >= 1 =>
        \A k \in 1..Len(results) :
            /\ Analyzed(k)
            /\ Serves(Website(orig[k])) <=> StartsWith(results[k].score_reasons, "Site loads")

\* a record whose fetch failed, followed by a record that was scored
C6_Witness ==
    /\ pc = "idle" /\ runs = 1 /\ Len(results) = 2
    /\ results[1].score_reasons = "Unreachable (ConnectionError)"
    /\ results[1].phone = "555"
    /\ results[2].website_score = 50 /\ results[2].rating = 4

C8_RowsCarryAnalysis ==
    pc = "done" /\ ~args.no_analyze =>
        \A k \in 1..Len(results) :
            \A f \in AnalysisFields :
                \E c \in 1..Len(rows[k + 1]) : rows[k + 1][c] = Cell(results[k], f)

(***************************************************************************)
(* Properties of the snippets in the ownership evidence                    *)
(***************************************************************************)
MaxSnippet == 100   \* the lengths tried as the one bound of all snippets

PageOf(k) == web[NormalizeUrl(Website(orig[k]))]
AnalyzedPage(k) == Analyzed(k) /\ Serves(Website(orig[k]))

\* match.group(0) of every pattern of a table that is found in text
Matches(table, text) ==
    {Group0IC(table[n], text) : n \in {j \in 1..Len(table) : FoundIC(table[j], text)}}

IsSnippet(entry, prefix) == StartsWith(entry, prefix \o ": \"") /\ EndsWith(entry, "\"")
SnippetLen(entry, prefix) == Len(entry) - Len(prefix) - 4

\* the evidence of record k quotes every match cut to Lg characters (group
\* patterns, on the text and on the footer) or to Li characters (independent
\* patterns), and quotes nothing longer
Conforms(k, Lg, Li) ==
    LET text == Lower(GetText(PageOf(k).doc))
        footer == ExtractFooterText(LowerDoc(PageOf(k).doc))
        entries == Range(SplitOn(results[k].ownership_signals, "; "))
        quotes(prefix, ms, L) ==
            /\ \A m \in ms : Quoted(prefix, Take(m, L)) \in entries
            /\ \A e \in entries : IsSnippet(e, prefix) => SnippetLen(e, prefix) <= L
    IN /\ results[k].ownership_type = "Group/DSO" =>
            /\ quotes("Pattern", Matches(GROUP_PATTERNS, text), Lg)
            /\ quotes("Footer", Matches(GROUP_PATTERNS, footer), Lg)
       /\ results[k].ownership_type = "Independent" =>
            quotes("Pattern", Matches(INDEPENDENT_PATTERNS, text), Li)

\* C10 as stated: there is one bound L such that every snippet quoted in the
\* evidence, of a group pattern on the text or on the footer or of an
\* independent pattern, is the match cut to L characters
C10_Original ==
    \E L \in 1..MaxSnippet :
        \A k \in 1..Len(results) : AnalyzedPage(k) => Conforms(k, L, L)

\* C10 amended: the snippets of group patterns, on the text and on the footer,
\* are the matches cut to 80 characters and the snippets of independent
\* patterns are the matches cut to 60 characters
C10_TwoBounds ==
    \A k \in 1..Len(results) : AnalyzedPage(k) => Conforms(k, 80, 60)

\* an independent match of 70 characters quoted by its first 60, next to a group
\* match of 72 characters quoted whole and one of 96 quoted by its first 80
C10_Witness ==
    /\ pc = "idle" /\ runs = 1 /\ Len(results) = 2
    /\ results[1].ownership_type = "Independent"
    /\ results[1].ownership_signals = Quoted("Pattern", "private" \o Blanks(53))
    /\ results[2].ownership_type = "Group/DSO"
    /\ LET entries == SplitOn(results[2].ownership_signals, "; ")
       IN /\ Quoted("Pattern", "backed" \o Blanks(64) \o "by") \in Range(entries)
          /\ \E e \in Range(entries) : IsSnippet(e, "Footer") /\ SnippetLen(e, "Footer") = 80

(***************************************************************************)
(* A direct call of analyze_website on URLs of many shapes, for the domain *)
(* heuristic                                                               *)
(***************************************************************************)
DomainUrls ==
    {scheme \o userinfo \o www \o sub \o domain \o port \o path :
        scheme \in {"", "http://"}, userinfo \in {"", "user123@"}, www \in {"", "www."},
        sub \in {"", "shop.", "office123."},
        domain \in {"example.com", "dental365.com", "smile24.com"},
        port \in {"", ":8080"}, path \in {"", "/rooms/1234"}}

DomainInputs ==
    DomainUrls
        \X {Response(200, "https://example.com/", d) :
                d \in {<<>>, <<Elem("p", "", "", "", "A Family-Owned practice")>>}}

InitDomain == InitCall(DomainInputs)
SpecDomain == InitDomain /\ [][CallAnalyzeWebsite]_vars

\* the host of the requested URL: its authority without user-info and port
HostOf(url) ==
    LET authority == Lower(Netloc(NormalizeUrl(url)))
        at == IndexOf(authority, "@")
        hostport == IF at = 0 THEN authority ELSE SubSeq(authority, at + 1, Len(authority))
        colon == IndexOf(hostport, ":")
    IN IF colon = 0 THEN hostport ELSE SubSeq(hostport, 1, colon - 1)

\* the first label of the registrable domain of a host under a one-label
\* public suffix (.com): the label before the suffix
RegistrableFirstLabel(host) ==
    LET labels == SplitOn(host, ".")
    IN IF Len(labels) < 2 THEN labels[1] ELSE labels[Len(labels) - 1]

HasDigitRun(s) ==
    \E i \in 1..(Len(s) - 2) : \A k \in i..(i + 2) : Ch(s, k) \in Digits

NumericDomainSignal == Contains(ret.ownership_signals, "Numeric domain: ")

\* C11: for every host, with or without "www.", further subdomain labels, port
\* or user-info, the evidence has the "Numeric domain" signal if and only if the
\* first label of the registrable domain has a run of three digits; digits in a
\* subdomain label, the path or the port add none
C11_NumericDomain ==
    Returned /\ PageObtained =>
        (NumericDomainSignal <=> HasDigitRun(RegistrableFirstLabel(HostOf(callUrl))))

(***************************************************************************)
(* analyze_businesses followed by the summary of cli.py, on a site that    *)
(* serves pages from the worst to the best, next to a site that is down    *)
(***************************************************************************)
WorstPage ==
    <<Elem("p", "", "", "", "Coming Soon"), Elem("div", "", "wix", "", "Powered by Wix")>>

SummaryDocs == SeqsUpTo(ScoreElems, 1) \cup {WorstPage}

SummaryAnswers ==
    {Response(200, u, d) : u \in {"https://site.example/", "http://site.example/"},
                           d \in SummaryDocs}
        \cup {Response(st, "https://site.example/", <<>>) : st \in OtherStatuses}
        \cup {Failure("Timeout")}

SummaryLists ==
    LET a == [name |-> "A", website |-> "site.example"]
        b == [name |-> "B", website |-> "down.example"]
        c == [name |-> "C"]
        d == [name |-> "D", website |-> ""]
    IN {<<a, b>>, <<c, a>>, <<b, d, a>>}

InitSummary ==
    /\ results \in SummaryLists
    /\ orig = results
    /\ \E answer \in SummaryAnswers :
        web = [u \in {"https://site.example", "https://down.example"} |->
                  IF u = "https://site.example" THEN answer ELSE Failure("ConnectionError")]
    /\ pc = "idle" /\ idx = 0 /\ runs = 0 /\ first = <<>>
    /\ args = <<>> /\ rows = <<>> /\ callUrl = "" /\ ret = NoResult /\ api = <<>>
    /\ gets = <<>>

SpecSummary == InitSummary /\ [][NextBatch]_vars

\* _print_analysis_summary: the list "scored"
Scored(r) == Get(r, "website_score", 0) > 0
ScoredRecords(rs) == SelectSeq(rs, Scored)

\* the local score of analyze_website before the clamp, for the page of record k
UnclampedScore(k) ==
    Scoring(Lower(GetText(PageOf(k).doc)), Lower(Markup(PageOf(k).doc)), PageOf(k).url).score

\* C12: website_score is 0 if and only if no page was obtained; for a fetched
\* page the unclamped sum is from 5 to 100 and the clamp leaves it as it is, so
\* the records the summary counts as scored are those whose page was fetched
C12_ZeroIffNoPage ==
    pc = "idle" /\ runs >= 1 =>
        /\ \A k \in 1..Len(results) :
            /\ results[k].website_score = 0 <=> ~Serves(Website(orig[k]))
            /\ Serves(Website(orig[k])) =>
                /\ UnclampedScore(k) \in 5..100
                /\ results[k].website_score = UnclampedScore(k)
        /\ ScoredRecords(results)
            = SelectSeq(results, LAMBDA r : Serves(Website(r)))

\* the worst page served over http, scored 5, next to a record whose site is down
C12_Witness ==
    /\ pc = "idle" /\ runs = 1 /\ Len(results) = 2
    /\ Serves(Website(orig[1])) /\ results[1].website_score = 5
    /\ ~Serves(Website(orig[2])) /\ results[2].website_score = 0
    /\ ScoredRecords(results) = <<results[1]>>

====
